---- MODULE Spec2Model ----
(***************************************************************************)
(* A model of examples/lsm/run_lsm.py (Latent Spectral Model, 2D Darcy).   *)
(*                                                                         *)
(* Three specifications share the module:                                  *)
(*   SpecPatch : the patchify / de-patchify index rearrangement of         *)
(*               NeuralSpectralBlock2d.forward on a concrete tensor;       *)
(*   SpecFwd   : LSM_2D construction and the shape bookkeeping of          *)
(*               LSM_2D.forward, one action per stage;                     *)
(*   SpecMain  : the training / evaluation loop of main.                   *)
(* Tensors are modelled by their shape and, where element positions        *)
(* matter, by the row-major sequence of their elements.  Floating point    *)
(* values are not modelled.                                                *)
(***************************************************************************)
EXTENDS Integers, Sequences, FiniteSets, TLC

VARIABLES
    \* ---- SpecPatch: NeuralSpectralBlock2d.forward index rearrangement
    ppc,        \* "start" | "patched" | "restored" | "error"
    px0,        \* the feature map handed to forward: [shape, data]
    px,         \* the tensor x as forward rebinds it
    psize,      \* self.patch_size, <<p0, p1>>
    \* ---- SpecFwd: LSM_2D.__init__ and LSM_2D.forward
    fpc,        \* position in __init__ / forward, or "done" / "error"
    fcfg,       \* args and mode: width, patch, padding, out_dim, num_token, num_basis, training
    fin,        \* shape of the input of forward, <<B, H, W, in_dim>>
    fx,         \* shape of the local x of forward
    fskip,      \* shapes of x1 .. x5 (<<>> until computed)
    fproc,      \* shape of the processed skip map the next Up stage consumes
    ferr,       \* the stage that raised, "" when none
    \* ---- SpecMain: main
    mpc,        \* position in main
    margs,      \* ntrain, ntest, batch_size, epochs, step_size
    ep,         \* the epoch index of the for loop
    remaining,  \* samples the current loader iteration has not yielded yet
    batch,      \* the mini-batch in hand: [n, xUnit, yUnit]
    out,        \* the prediction in hand: [n, unit]
    batchOps,   \* the operations applied to the mini-batch in hand, in order
    lossArgs,   \* the last pair handed to myloss: [phase, pred, ref]
    paramVer,   \* version of the model parameters (one per optimizer.step)
    gradState,  \* "none" | "zero" | "fresh"
    counts,     \* steps and batches (this epoch), totalSteps, backward, trainDone, evalStarted, evalDone
    sched,      \* StepLR: [last_epoch, decays]; lr = learning_rate * gamma^decays
    modelMode,  \* "train" | "eval"
    fs,         \* the file system: [dir, files, created]: save_path exists, paths written, makedirs ran
    saves,      \* the checkpoint writes so far: sequence of [ep, path, ver, dir]
    data,       \* units of the four data tensors after normalization
    merr        \* the stage of main that raised, "" when none

pvars == <<ppc, px0, px, psize>>
fvars == <<fpc, fcfg, fin, fx, fskip, fproc, ferr>>
mvars == <<mpc, margs, ep, remaining, batch, out, batchOps, lossArgs, paramVer,
           gradState, counts, sched, modelMode, fs, saves, data, merr>>
vars == <<pvars, fvars, mvars>>

\* ------------------------------------------------------------------------
\* Bounds of the model
\* ------------------------------------------------------------------------
MaxB == 2
MaxC == 2
MaxHW == 4
MaxPatch == 3

\* ------------------------------------------------------------------------
\* Tensor primitives (torch semantics of view / permute / contiguous)
\* ------------------------------------------------------------------------
RECURSIVE ProdFrom(_, _)
\* product of shape[i .. Len(shape)]
ProdFrom(shape, i) ==
    IF i > Len(shape) THEN 1 ELSE shape[i] * ProdFrom(shape, i + 1)

Numel(shape) == ProdFrom(shape, 1)

\* the multi-index (0-based entries) of row-major offset k
Unravel(k, shape) ==
    [i \in 1..Len(shape) |->
        IF shape[i] = 0 THEN 0 ELSE (k \div ProdFrom(shape, i + 1)) % shape[i]]

RECURSIVE RavelFrom(_, _, _)
RavelFrom(idx, shape, i) ==
    IF i > Len(shape) THEN 0
    ELSE idx[i] * ProdFrom(shape, i + 1) + RavelFrom(idx, shape, i + 1)

\* the row-major offset of a multi-index
Ravel(idx, shape) == RavelFrom(idx, shape, 1)

ErrTensor == [shape |-> <<>>, data |-> <<>>, err |-> TRUE]

MkTensor(shape, d) == [shape |-> shape, data |-> d, err |-> FALSE]

\* Tensor.view(*shape): same storage order; raises when the element counts differ
View(t, shape) ==
    IF t.err \/ Numel(shape) /= Len(t.data) THEN ErrTensor
    ELSE MkTensor(shape, t.data)

\* Tensor.permute(*perm).contiguous(); perm holds 0-based dimension numbers:
\* dimension i of the result is dimension perm[i] of the argument
PermuteContiguous(t, perm) ==
    IF t.err THEN ErrTensor
    ELSE LET n == Len(perm)
             newshape == [i \in 1..n |-> t.shape[perm[i] + 1]]
             OldIdx(nidx) ==
                 [j \in 1..n |-> nidx[CHOOSE i \in 1..n : perm[i] + 1 = j]]
         IN MkTensor(newshape,
                [k \in 1..Len(t.data) |->
                    t.data[Ravel(OldIdx(Unravel(k - 1, newshape)), t.shape) + 1]])

\* ------------------------------------------------------------------------
\* NeuralSpectralBlock2d.forward: patchify and de-patchify
\* ------------------------------------------------------------------------
PatchifyPerm == <<0, 2, 4, 1, 3, 5>>

DePatchifyPermSwapped == <<0, 3, 2, 5, 1, 4>>

DePatchifyPerm == <<0, 3, 1, 4, 2, 5>>

\* lines 255-261; x.shape is <<B, C, H, W>>, ps is self.patch_size
Patchify(x, ps) ==
    LET s == x.shape
        v1 == View(x, <<s[1], s[2], s[3] \div ps[1], ps[1], s[4] \div ps[2], ps[2]>>)
        p == PermuteContiguous(v1, PatchifyPerm)
    IN View(p, <<s[1] * (s[3] \div ps[1]) * (s[4] \div ps[2]), s[2], ps[1], ps[2]>>)

\* line 271; B, C, H, W are the values unpacked from x.shape at line 253
DePatchify(x, bchw, ps) ==
    LET B == bchw[1]
        C == bchw[2]
        H == bchw[3]
        W == bchw[4]
        v1 == View(x, <<B, H \div ps[1], W \div ps[2], C, ps[1], ps[2]>>)
        p == PermuteContiguous(v1, DePatchifyPerm)
    IN View(p, <<B, C, H, W>>)

\* the position (b, c, h, w) an element of a <<B, C, H, W>> tensor sits at
PositionOf(t, k) == Unravel(k - 1, t.shape)

PatchShapes ==
    (1..MaxB) \X (1..MaxC) \X (1..MaxHW) \X (1..MaxHW)

PatchSizes == (1..MaxPatch) \X (1..MaxPatch)

FwdIdle ==
    /\ fpc = "idle"
    /\ fcfg = <<>>
    /\ fin = <<>>
    /\ fx = <<>>
    /\ fskip = <<>>
    /\ fproc = <<>>
    /\ ferr = ""

MainIdle ==
    /\ mpc = "idle"
    /\ margs = <<>>
    /\ ep = 0
    /\ remaining = 0
    /\ batch = <<>>
    /\ out = <<>>
    /\ batchOps = <<>>
    /\ lossArgs = <<>>
    /\ paramVer = 0
    /\ gradState = "none"
    /\ counts = <<>>
    /\ sched = <<>>
    /\ modelMode = "train"
    /\ fs = <<>>
    /\ saves = <<>>
    /\ data = <<>>
    /\ merr = ""

PatchIdle ==
    /\ ppc = "idle"
    /\ px0 = ErrTensor
    /\ px = ErrTensor
    /\ psize = <<1, 1>>

\* a feature map whose elements are tagged with their own row-major offset
PatchInit ==
    /\ ppc = "start"
    /\ \E s \in PatchShapes :
          px0 = MkTensor(s, [k \in 1..Numel(s) |-> k])
    /\ px = px0
    /\ psize \in PatchSizes
    /\ FwdIdle
    /\ MainIdle

\* lines 253-261
DoPatchify ==
    /\ ppc = "start"
    /\ LET r == Patchify(px, psize)
       IN /\ px' = r
          /\ ppc' = IF r.err THEN "error" ELSE "patched"
    /\ UNCHANGED <<px0, psize, fvars, mvars>>

\* line 271, applied to the patch tensor as patchify left it
DoDePatchify ==
    /\ ppc = "patched"
    /\ LET r == DePatchify(px, px0.shape, psize)
       IN /\ px' = r
          /\ ppc' = IF r.err THEN "error" ELSE "restored"
    /\ UNCHANGED <<px0, psize, fvars, mvars>>

PatchNext == DoPatchify \/ DoDePatchify

SpecPatch == PatchInit /\ [][PatchNext]_vars

\* ------------------------------------------------------------------------
\* C1: patchify followed immediately by de-patchify is the identity
\* ------------------------------------------------------------------------
Divisible(shape, ps) == shape[3] % ps[1] = 0 /\ shape[4] % ps[2] = 0

\* C1: for every feature map (B, C, H, W) with H divisible by patch_size[0]
\* and W by patch_size[1], patchify succeeds, and after de-patchify every
\* element is back at its position (b, c, h, w) and the element count is
\* the original one.
C1_RoundTripIdentity ==
    Divisible(px0.shape, psize) =>
        /\ ppc /= "error"
        /\ ppc = "patched" => Len(px.data) = Len(px0.data)
        /\ ppc = "restored" =>
              /\ px.shape = px0.shape
              /\ Len(px.data) = Len(px0.data)
              /\ \A k \in 1..Len(px0.data) :
                    /\ px.data[k] = px0.data[k]
                    /\ PositionOf(px, k) = PositionOf(px0, k)

\* a 2 x 4 x 4 map cut into 2 x 2 patches, restored; the patch tensor in
\* between was a real rearrangement
C1_Witness ==
    /\ ppc = "restored"
    /\ px0.shape = <<2, 2, 4, 4>>
    /\ psize = <<2, 2>>
    /\ Patchify(px0, psize).data /= px0.data

\* ------------------------------------------------------------------------
\* LSM_2D: shapes through __init__ and forward
\* ------------------------------------------------------------------------
MaxBatch == 2
MaxPad == 2

head == 8
factor == 2
in_dim == 1
out_dim == 1

\* spatial extents of the inputs tried (8: end-to-end scenario 1; 14: scenario 3)
Extents == {8, 14, 16, 32}

Widths == {4, 8}

ShapeErr == <<-1>>

IsErr(s) == s = ShapeErr

\* the shape a view to newshape gives; torch raises when the counts differ
ViewShape(s, newshape) ==
    IF IsErr(s) \/ Numel(s) /= Numel(newshape) THEN ShapeErr ELSE newshape

\* len(range(n)[:-k]), the length of the python slice x[:-k] of an axis of n
SliceStopNeg(n, k) ==
    IF k = 0 THEN 0 ELSE IF n - k < 0 THEN 0 ELSE n - k

AllZero(padding) == padding[1] = 0 /\ padding[2] = 0

\* lines 304, 309-312: cat with the 2 grid channels, fc0, permute(0, 3, 1, 2)
Fc0Shape(s, width) ==
    IF s[4] + 2 /= in_dim + 2 THEN ShapeErr ELSE <<s[1], width, s[2], s[3]>>

\* lines 314-315: F.pad(x, [0, padding[0], 0, padding[1]]) pads the last axis
\* (W) by padding[0] and the axis before it (H) by padding[1]
PadShape(s, padding) ==
    IF AllZero(padding) THEN s
    ELSE <<s[1], s[2], s[3] + padding[2], s[4] + padding[1]>>

\* lines 137-151: two 3x3 convolutions with padding 1 keep the extent; each
\* BatchNorm2d in training mode raises on a single value per channel
DoubleConvShape(s, cin, cout, training) ==
    IF IsErr(s) \/ s[2] /= cin \/ s[3] < 1 \/ s[4] < 1 THEN ShapeErr
    ELSE IF training /\ s[1] * s[3] * s[4] <= 1 THEN ShapeErr
    ELSE <<s[1], cout, s[3], s[4]>>

\* lines 156-164: MaxPool2d(2) floors the halved extent and raises on 0
DownShape(s, cin, cout, training) ==
    IF IsErr(s) \/ s[3] \div 2 < 1 \/ s[4] \div 2 < 1 THEN ShapeErr
    ELSE DoubleConvShape(<<s[1], s[2], s[3] \div 2, s[4] \div 2>>, cin, cout, training)

\* lines 169-183: upsample x2, zero-pad to the skip map's extent, concatenate
UpShape(x1, x2, cin, cout, training) ==
    IF IsErr(x1) \/ IsErr(x2) THEN ShapeErr
    ELSE LET upH == 2 * x1[3]
             upW == 2 * x1[4]
             diffY == x2[3] - upH
             diffX == x2[4] - upW
             padH == upH + diffY
             padW == upW + diffX
         IN IF x1[1] /= x2[1] \/ padH /= x2[3] \/ padW /= x2[4] THEN ShapeErr
            ELSE DoubleConvShape(<<x2[1], x2[2] + x1[2], x2[3], x2[4]>>,
                                 cin, cout, training)

\* lines 186-191
OutConvShape(s, cin, cout) ==
    IF IsErr(s) \/ s[2] /= cin THEN ShapeErr ELSE <<s[1], cout, s[3], s[4]>>

\* the crop with the two paddings taken in the other order
CropShapeSwapped(s, padding) ==
    IF AllZero(padding) THEN s
    ELSE <<s[1], s[2], SliceStopNeg(s[3], padding[1]), SliceStopNeg(s[4], padding[2])>>

\* lines 328-329: x[..., :-padding[1], :-padding[0]]
CropShape(s, padding) ==
    IF AllZero(padding) THEN s
    ELSE <<s[1], s[2], SliceStopNeg(s[3], padding[2]), SliceStopNeg(s[4], padding[1])>>

\* lines 330-333: permute(0, 2, 3, 1), fc1, gelu, fc2
ProjectShape(s, width, cout) ==
    IF IsErr(s) \/ s[2] /= width THEN ShapeErr ELSE <<s[1], s[3], s[4], cout>>

\* lines 255-261 on shapes
PatchifyShape(s, ps) ==
    LET v1 == ViewShape(s, <<s[1], s[2], s[3] \div ps[1], ps[1], s[4] \div ps[2], ps[2]>>)
    IN IF IsErr(v1) THEN ShapeErr
       ELSE <<s[1] * (s[3] \div ps[1]) * (s[4] \div ps[2]), s[2], ps[1], ps[2]>>

\* lines 220-229: the latent tokens, <<B, C, num_token>>
LatentEncoderShape(s, width, num_token) ==
    IF IsErr(s) \/ s[2] /= width THEN ShapeErr
    ELSE LET B == s[1]
             C == s[2]
             L == s[3] * s[4]
             latent == <<B, head, num_token, width \div head>>
             kv == ViewShape(<<B, L, 2 * C>>, <<B, L, head, C \div head, 2>>)
         IN IF IsErr(kv) \/ kv[4] /= latent[4] THEN ShapeErr
            ELSE ViewShape(<<B, head, latent[4], num_token>>, <<B, C, num_token>>)

\* lines 243-250, 266-267: basis expansion and mixing keep <<B, C, num_token>>
TransitionShape(t, width, num_basis) ==
    IF IsErr(t) \/ t[2] /= width THEN ShapeErr ELSE t

\* lines 231-241
LatentDecoderShape(s, t, num_token) ==
    IF IsErr(s) \/ IsErr(t) THEN ShapeErr
    ELSE LET B == s[1]
             C == s[2]
             L == s[3] * s[4]
             lt == ViewShape(t, <<B, head, C \div head, num_token>>)
             q == ViewShape(<<B, L, C>>, <<B, L, head, C \div head>>)
         IN IF IsErr(lt) \/ IsErr(q) THEN ShapeErr
            ELSE ViewShape(<<B, head, C \div head, L>>, s)

\* line 271 on shapes
DePatchifyShape(s, bchw, ps) ==
    LET v1 == ViewShape(s, <<bchw[1], bchw[3] \div ps[1], bchw[4] \div ps[2],
                             bchw[2], ps[1], ps[2]>>)
    IN IF IsErr(v1) THEN ShapeErr ELSE ViewShape(v1, bchw)

\* the block without its two reshapes that can raise
BlockShapeUnchecked(s, width, cfg) == s

\* lines 252-272: NeuralSpectralBlock2d(width, ...).forward on a map of shape s
BlockShape(s, width, cfg) ==
    IF IsErr(s) THEN ShapeErr
    ELSE LET p == PatchifyShape(s, cfg.patch)
             t == LatentEncoderShape(p, width, cfg.num_token)
             m == TransitionShape(t, width, cfg.num_basis)
             d == LatentDecoderShape(p, m, cfg.num_token)
         IN DePatchifyShape(d, s, cfg.patch)

\* lines 285-301: the channel widths the constructor wires
DownChannels(width) ==
    << <<width, width * 2>>, <<width * 2, width * 4>>, <<width * 4, width * 8>>,
       <<width * 8, (width * 16) \div factor>> >>

UpChannels(width) ==
    << <<width * 16, (width * 8) \div factor>>, <<width * 8, (width * 4) \div factor>>,
       <<width * 4, (width * 2) \div factor>>, <<width * 2, width>> >>

ProcessWidth(width) ==
    <<width, width * 2, width * 4, width * 8, (width * 16) \div factor>>

FwdConfigs ==
    [width : Widths,
     patch : (1..MaxPatch) \X (1..MaxPatch),
     padding : (0..MaxPad) \X (0..MaxPad),
     out_dim : {out_dim},
     num_token : {2},
     num_basis : {0, 2},
     training : BOOLEAN]

FwdInit ==
    /\ fpc = "new"
    /\ fcfg \in FwdConfigs
    /\ fin \in (1..MaxBatch) \X Extents \X Extents \X {in_dim}
    /\ fx = <<>>
    /\ fskip = <<>>
    /\ fproc = <<>>
    /\ ferr = ""
    /\ PatchIdle
    /\ MainIdle

\* lines 195-213 and 275-306: the constructors read the configuration only;
\* the one thing that can raise is 1.0 / float(num_basis)
Construct ==
    /\ fpc = "new"
    /\ IF fcfg.num_basis = 0
         THEN fpc' = "error" /\ ferr' = "construct"
         ELSE fpc' = "fc0" /\ ferr' = ferr
    /\ UNCHANGED <<fcfg, fin, fx, fskip, fproc, pvars, mvars>>

\* one stage of forward: x becomes s, or the stage raises
Advance(stage, s, next) ==
    IF IsErr(s)
      THEN fpc' = "error" /\ ferr' = stage /\ fx' = fx
      ELSE fpc' = next /\ ferr' = ferr /\ fx' = s

\* lines 309-312
Fc0 ==
    /\ fpc = "fc0"
    /\ Advance("fc0", Fc0Shape(fin, fcfg.width), "pad")
    /\ UNCHANGED <<fcfg, fin, fskip, fproc, pvars, mvars>>

\* lines 314-315
Pad ==
    /\ fpc = "pad"
    /\ Advance("pad", PadShape(fx, fcfg.padding), "inc")
    /\ UNCHANGED <<fcfg, fin, fskip, fproc, pvars, mvars>>

\* line 317
Inc ==
    /\ fpc = "inc"
    /\ LET s == DoubleConvShape(fx, fcfg.width, fcfg.width, fcfg.training)
       IN /\ Advance("inc", s, "down1")
          /\ fskip' = IF IsErr(s) THEN fskip ELSE <<s>>
    /\ UNCHANGED <<fcfg, fin, fproc, pvars, mvars>>

DownPc == <<"down1", "down2", "down3", "down4">>

AfterDown == <<"down2", "down3", "down4", "process5">>

\* lines 318-321: x_{k+1} = down_k(x_k)
Down(k) ==
    /\ fpc = DownPc[k]
    /\ LET ch == DownChannels(fcfg.width)[k]
           s == DownShape(fskip[k], ch[1], ch[2], fcfg.training)
       IN /\ Advance(DownPc[k], s, AfterDown[k])
          /\ fskip' = IF IsErr(s) THEN fskip ELSE Append(fskip, s)
    /\ UNCHANGED <<fcfg, fin, fproc, pvars, mvars>>

ProcessPc == <<"process1", "process2", "process3", "process4", "process5">>

AfterProcess == <<"up4", "up3", "up2", "up1", "process4">>

\* lines 322-325: process_k(x_k); process5 feeds x, the others the skip input
Process(k) ==
    /\ fpc = ProcessPc[k]
    /\ LET s == BlockShape(fskip[k], ProcessWidth(fcfg.width)[k], fcfg)
       IN IF IsErr(s)
            THEN fpc' = "error" /\ ferr' = ProcessPc[k] /\ UNCHANGED <<fx, fproc>>
            ELSE /\ fpc' = AfterProcess[k]
                 /\ ferr' = ferr
                 /\ IF k = 5 THEN fx' = s /\ fproc' = fproc
                             ELSE fproc' = s /\ fx' = fx
    /\ UNCHANGED <<fcfg, fin, fskip, pvars, mvars>>

UpPc == <<"up1", "up2", "up3", "up4">>

AfterUp == <<"process3", "process2", "process1", "outc">>

\* lines 322-325: x = up_k(x, process(...))
Up(k) ==
    /\ fpc = UpPc[k]
    /\ LET ch == UpChannels(fcfg.width)[k]
       IN Advance(UpPc[k], UpShape(fx, fproc, ch[1], ch[2], fcfg.training), AfterUp[k])
    /\ UNCHANGED <<fcfg, fin, fskip, fproc, pvars, mvars>>

\* line 326
OutC ==
    /\ fpc = "outc"
    /\ Advance("outc", OutConvShape(fx, fcfg.width, fcfg.width), "crop")
    /\ UNCHANGED <<fcfg, fin, fskip, fproc, pvars, mvars>>

\* lines 328-329
Crop ==
    /\ fpc = "crop"
    /\ Advance("crop", CropShape(fx, fcfg.padding), "project")
    /\ UNCHANGED <<fcfg, fin, fskip, fproc, pvars, mvars>>

\* lines 330-334
Project ==
    /\ fpc = "project"
    /\ Advance("project", ProjectShape(fx, fcfg.width, fcfg.out_dim), "done")
    /\ UNCHANGED <<fcfg, fin, fskip, fproc, pvars, mvars>>

FwdNext ==
    \/ Construct
    \/ Fc0
    \/ Pad
    \/ Inc
    \/ \E k \in 1..4 : Down(k)
    \/ \E k \in 1..5 : Process(k)
    \/ \E k \in 1..4 : Up(k)
    \/ OutC
    \/ Crop
    \/ Project

SpecFwd == FwdInit /\ [][FwdNext]_vars

\* ------------------------------------------------------------------------
\* Closed forms used to state the claims about forward
\* ------------------------------------------------------------------------
RECURSIVE Halved(_, _)
\* n after k floor-halvings
Halved(n, k) == IF k = 0 THEN n ELSE Halved(n \div 2, k - 1)

\* the padded extents <<H', W'>> of the input
PaddedExtent ==
    IF AllZero(fcfg.padding) THEN <<fin[2], fin[3]>>
    ELSE <<fin[2] + fcfg.padding[2], fin[3] + fcfg.padding[1]>>

\* the patch size divides the extent of each of the five feature maps
PatchDividesAll ==
    \A k \in 0..4 :
        /\ Halved(PaddedExtent[1], k) % fcfg.patch[1] = 0
        /\ Halved(PaddedExtent[2], k) % fcfg.patch[2] = 0

UniformPadding ==
    AllZero(fcfg.padding) \/ (fcfg.padding[1] > 0 /\ fcfg.padding[2] > 0)

\* the configurations and inputs on which forward runs to its return
Feasible ==
    /\ fcfg.num_basis /= 0
    /\ fcfg.width % head = 0
    /\ Halved(PaddedExtent[1], 4) >= 1
    /\ Halved(PaddedExtent[2], 4) >= 1
    /\ PatchDividesAll
    /\ fcfg.training =>
          fin[1] * Halved(PaddedExtent[1], 4) * Halved(PaddedExtent[2], 4) > 1

ForwardStages ==
    {"fc0", "pad", "inc", "down1", "down2", "down3", "down4", "process5",
     "process4", "up1", "process3", "up2", "process2", "up3", "process1", "up4",
     "outc", "crop", "project"}

\* ------------------------------------------------------------------------
\* C6: the crop restores the native extent
\* ------------------------------------------------------------------------
\* C6 (as claimed): for every padding pair of non-negative integers and every
\* input of extent H x W, the tensor that enters the final projections has
\* spatial extent H x W.
C6_CropRestoresExtent ==
    fpc = "project" => (fx[3] = fin[2] /\ fx[4] = fin[3])

\* ------------------------------------------------------------------------
\* C7: a patch size that does not divide a feature map
\* ------------------------------------------------------------------------
\* C7 (as claimed): a configuration whose patch size does not divide some
\* feature map fails at construction and never gets as far as forward.
C7_FailsAtConstruction ==
    (~PatchDividesAll /\ fpc /= "new") => (fpc = "error" /\ ferr = "construct")

\* C7 (amended): the constructors never raise because of the patch size (the
\* only construction failure is num_basis = 0); a configuration whose patch
\* size does not divide some feature map enters forward, and forward never
\* returns for it: it ends in a raised error.
C7_FailsInForward ==
    /\ ferr = "construct" => fcfg.num_basis = 0
    /\ (~PatchDividesAll /\ fcfg.num_basis /= 0) =>
          /\ fpc /= "done"
          /\ fpc = "error" => ferr \in ForwardStages

\* a 32 x 32 input with patch size 3: constructed, then the view of
\* process5 raises in forward
C7_Witness ==
    /\ ~PatchDividesAll
    /\ fcfg.width % head = 0
    /\ fin[2] = 32
    /\ fin[3] = 32
    /\ fpc = "error"
    /\ ferr = "process5"

\* ------------------------------------------------------------------------
\* C8: forward returns (B, H, W, out_dim)
\* ------------------------------------------------------------------------
\* C8 (as claimed): forward on (B, H, W, in_dim) completes without a shape
\* error and returns (B, H, W, out_dim); in particular width 4, patch [2,2],
\* padding [0,0], input (1, 8, 8, 1) returns (1, 8, 8, 1).
C8_ForwardReturnsInputExtent ==
    /\ ferr \notin ForwardStages
    /\ fpc = "done" => fx = <<fin[1], fin[2], fin[3], fcfg.out_dim>>

\* C8 (amended): forward returns exactly on the feasible configurations
\* (width a multiple of the 8 heads, five feature maps of extent >= 1 that the
\* patch size divides, more than one value per channel at the coarsest map in
\* training mode) and raises on the others; what it returns is
\* (B, H, W, out_dim) when the padding entries are both zero or both
\* positive, and has an empty axis where exactly one entry is zero.
C8_ForwardShape ==
    /\ fpc = "done" =>
          /\ Feasible
          /\ fx[1] = fin[1]
          /\ fx[4] = fcfg.out_dim
          /\ UniformPadding => (fx[2] = fin[2] /\ fx[3] = fin[3])
          /\ ~UniformPadding =>
                /\ fx[2] = (IF fcfg.padding[2] = 0 THEN 0 ELSE fin[2])
                /\ fx[3] = (IF fcfg.padding[1] = 0 THEN 0 ELSE fin[3])
    /\ (fpc = "error" /\ ferr \in ForwardStages) => ~Feasible

\* width 8, patch [2,2], padding [0,0], input (1, 32, 32, 1) in training mode
\* returns (1, 32, 32, 1)
C8_Witness ==
    /\ fpc = "done"
    /\ fcfg.width = 8
    /\ fcfg.patch = <<2, 2>>
    /\ fcfg.padding = <<0, 0>>
    /\ fcfg.training
    /\ fin = <<1, 32, 32, 1>>
    /\ fx = <<1, 32, 32, 1>>

\* ------------------------------------------------------------------------
\* main: the training / evaluation loop
\* ------------------------------------------------------------------------
MaxNTrain == 4
MaxNTest == 2
MaxBatchSize == 2
MaxEpochs == 3
MaxStepSize == 2

h == 421
w == 421
h_down == 5
w_down == 5

\* lines 352-353: int(((args.h - 1) / r1) + 1)
s1 == ((h - 1) \div h_down) + 1

s2 == ((w - 1) \div w_down) + 1

\* lines 72-74: UnitGaussianNormalizer.encode takes physical values to
\* normalized ones
Encode(unit) == IF unit = "physical" THEN "encoded" ELSE "encoded_twice"

\* lines 76-90: UnitGaussianNormalizer.decode (sample_idx is None) takes
\* normalized values to physical ones
Decode(unit) ==
    CASE unit = "encoded" -> "physical"
      [] unit = "encoded_twice" -> "encoded"
      [] OTHER -> "decoded_twice"

\* lines 375-381: x_train, x_test and y_train are encoded; y_test is not
NormalizedData ==
    [x_train |-> Encode("physical"),
     x_test |-> Encode("physical"),
     y_train |-> Encode("physical"),
     y_test |-> "physical"]

\* lines 386-387: DataLoader(..., batch_size=batch_size) keeps drop_last at its
\* default False: the last batch holds what is left
BatchLen(left, batch_size) == IF left >= batch_size THEN batch_size ELSE left

\* lines 402 and 419: model(x).reshape(batch_size, s1, s2) on the model's
\* output of shape (n, s1, s2, out_dim)
ReshapeOut(n, batch_size) ==
    ViewShape(<<n, s1, s2, out_dim>>, <<batch_size, s1, s2>>)

StepLRDecaysAlways(last_epoch, step_size) == TRUE

\* line 391, 411: StepLR multiplies the rate by gamma on the steps that bring
\* last_epoch to a multiple of step_size
StepLRDecays(last_epoch, step_size) == last_epoch % step_size = 0

SaveDueBeforeMultiple(epoch, step_size) == (epoch + 1) % step_size = 0

\* line 429
SaveDue(epoch, step_size) == epoch % step_size = 0

\* line 433: os.path.join(save_path, save_name), lines 470-471
CheckpointPath == <<"./checkpoints/", "lsm.pt">>

ZeroCounts ==
    [steps |-> 0, batches |-> 0, totalSteps |-> 0, backward |-> 0,
     trainDone |-> 0, evalStarted |-> 0, evalDone |-> 0]

MainArgs ==
    [ntrain : 1..MaxNTrain,
     ntest : 1..MaxNTest,
     batch_size : 1..MaxBatchSize,
     epochs : 1..MaxEpochs,
     step_size : 1..MaxStepSize]

MainInit ==
    /\ mpc = "start"
    /\ margs \in MainArgs
    /\ ep = 0
    /\ remaining = 0
    /\ batch = <<>>
    /\ out = <<>>
    /\ batchOps = <<>>
    /\ lossArgs = <<>>
    /\ paramVer = 0
    /\ gradState = "none"
    /\ counts = ZeroCounts
    /\ sched = <<>>
    /\ modelMode = "train"
    /\ \E d \in BOOLEAN : fs = [dir |-> d, files |-> {}, created |-> FALSE]
    /\ saves = <<>>
    /\ data = <<>>
    /\ merr = ""
    /\ PatchIdle
    /\ FwdIdle

\* lines 345-393: model, data, normalizers, loaders, optimizer, scheduler
Setup ==
    /\ mpc = "start"
    /\ data' = NormalizedData
    /\ sched' = [last_epoch |-> 0, decays |-> 0]
    /\ mpc' = "epoch"
    /\ UNCHANGED <<margs, ep, remaining, batch, out, batchOps, lossArgs, paramVer,
                   gradState, counts, modelMode, fs, saves, merr, pvars, fvars>>

\* lines 395-399: the head of the for loop, model.train(), iter(train_loader)
EpochBegin ==
    /\ mpc = "epoch"
    /\ IF ep < margs.epochs
         THEN /\ mpc' = "train_fetch"
              /\ modelMode' = "train"
              /\ remaining' = margs.ntrain
              /\ counts' = [counts EXCEPT !.steps = 0, !.batches = 0]
         ELSE /\ mpc' = "finished"
              /\ UNCHANGED <<modelMode, remaining, counts>>
    /\ UNCHANGED <<margs, ep, batch, out, batchOps, lossArgs, paramVer, gradState,
                   sched, fs, saves, data, merr, pvars, fvars>>

\* lines 399-400: the next (x, y) of train_loader, or the end of the loop
TrainFetch ==
    /\ mpc = "train_fetch"
    /\ IF remaining = 0
         THEN /\ mpc' = "sched"
              /\ counts' = [counts EXCEPT !.trainDone = @ + 1]
              /\ UNCHANGED <<remaining, batch, batchOps>>
         ELSE LET n == BatchLen(remaining, margs.batch_size)
              IN /\ batch' = [n |-> n, xUnit |-> data.x_train, yUnit |-> data.y_train]
                 /\ remaining' = remaining - n
                 /\ batchOps' = <<>>
                 /\ counts' = [counts EXCEPT !.batches = @ + 1]
                 /\ mpc' = "zero_grad"
    /\ UNCHANGED <<margs, ep, out, lossArgs, paramVer, gradState, sched, modelMode,
                   fs, saves, data, merr, pvars, fvars>>

\* line 401
ZeroGrad ==
    /\ mpc = "zero_grad"
    /\ gradState' = "zero"
    /\ batchOps' = Append(batchOps, "zero_grad")
    /\ mpc' = "forward"
    /\ UNCHANGED <<margs, ep, remaining, batch, out, lossArgs, paramVer, counts,
                   sched, modelMode, fs, saves, data, merr, pvars, fvars>>

\* line 402: the output of the network is in the normalized domain
TrainForward ==
    /\ mpc = "forward"
    /\ IF IsErr(ReshapeOut(batch.n, margs.batch_size))
         THEN mpc' = "error" /\ merr' = "train_reshape" /\ UNCHANGED <<out, batchOps>>
         ELSE /\ out' = [n |-> margs.batch_size, unit |-> "encoded"]
              /\ batchOps' = Append(batchOps, "forward")
              /\ mpc' = "decode"
              /\ merr' = merr
    /\ UNCHANGED <<margs, ep, remaining, batch, lossArgs, paramVer, gradState, counts,
                   sched, modelMode, fs, saves, data, pvars, fvars>>

\* line 403
TrainDecode ==
    /\ mpc = "decode"
    /\ out' = [out EXCEPT !.unit = Decode(@)]
    /\ batchOps' = Append(batchOps, "decode")
    /\ mpc' = "loss"
    /\ UNCHANGED <<margs, ep, remaining, batch, lossArgs, paramVer, gradState, counts,
                   sched, modelMode, fs, saves, data, merr, pvars, fvars>>

\* line 405: myloss(out.view(batch_size, -1), y.view(batch_size, -1))
TrainLoss ==
    /\ mpc = "loss"
    /\ lossArgs' = [phase |-> "train", pred |-> out.unit, ref |-> batch.yUnit]
    /\ batchOps' = Append(batchOps, "loss")
    /\ mpc' = "backward"
    /\ UNCHANGED <<margs, ep, remaining, batch, out, paramVer, gradState, counts,
                   sched, modelMode, fs, saves, data, merr, pvars, fvars>>

\* the loop body with optimizer.step() left out
BackwardThenAccumulate ==
    /\ mpc = "backward"
    /\ gradState' = "fresh"
    /\ counts' = [counts EXCEPT !.backward = @ + 1]
    /\ batchOps' = Append(batchOps, "backward")
    /\ mpc' = "accum"
    /\ UNCHANGED <<margs, ep, remaining, batch, out, lossArgs, paramVer, sched,
                   modelMode, fs, saves, data, merr, pvars, fvars>>

\* line 406
Backward ==
    /\ mpc = "backward"
    /\ gradState' = "fresh"
    /\ counts' = [counts EXCEPT !.backward = @ + 1]
    /\ batchOps' = Append(batchOps, "backward")
    /\ mpc' = "step"
    /\ UNCHANGED <<margs, ep, remaining, batch, out, lossArgs, paramVer, sched,
                   modelMode, fs, saves, data, merr, pvars, fvars>>

\* line 408
OptimizerStep ==
    /\ mpc = "step"
    /\ paramVer' = paramVer + 1
    /\ counts' = [counts EXCEPT !.steps = @ + 1, !.totalSteps = @ + 1]
    /\ batchOps' = Append(batchOps, "step")
    /\ mpc' = "accum"
    /\ UNCHANGED <<margs, ep, remaining, batch, out, lossArgs, gradState, sched,
                   modelMode, fs, saves, data, merr, pvars, fvars>>

\* line 409
Accumulate ==
    /\ mpc = "accum"
    /\ mpc' = "train_fetch"
    /\ UNCHANGED <<margs, ep, remaining, batch, out, batchOps, lossArgs, paramVer,
                   gradState, counts, sched, modelMode, fs, saves, data, merr,
                   pvars, fvars>>

\* line 411
SchedulerStep ==
    /\ mpc = "sched"
    /\ LET last == sched.last_epoch + 1
       IN sched' = [last_epoch |-> last,
                    decays |-> IF StepLRDecays(last, margs.step_size)
                                 THEN sched.decays + 1 ELSE sched.decays]
    /\ mpc' = "eval_begin"
    /\ UNCHANGED <<margs, ep, remaining, batch, out, batchOps, lossArgs, paramVer,
                   gradState, counts, modelMode, fs, saves, data, merr, pvars, fvars>>

\* lines 413-416: model.eval(), torch.no_grad(), iter(test_loader)
EvalBegin ==
    /\ mpc = "eval_begin"
    /\ modelMode' = "eval"
    /\ remaining' = margs.ntest
    /\ counts' = [counts EXCEPT !.evalStarted = @ + 1]
    /\ mpc' = "eval_fetch"
    /\ UNCHANGED <<margs, ep, batch, out, batchOps, lossArgs, paramVer, gradState,
                   sched, fs, saves, data, merr, pvars, fvars>>

\* lines 416-417
EvalFetch ==
    /\ mpc = "eval_fetch"
    /\ IF remaining = 0
         THEN /\ mpc' = "epoch_end"
              /\ counts' = [counts EXCEPT !.evalDone = @ + 1]
              /\ UNCHANGED <<remaining, batch, batchOps>>
         ELSE LET n == BatchLen(remaining, margs.batch_size)
              IN /\ batch' = [n |-> n, xUnit |-> data.x_test, yUnit |-> data.y_test]
                 /\ remaining' = remaining - n
                 /\ batchOps' = <<>>
                 /\ counts' = counts
                 /\ mpc' = "eval_forward"
    /\ UNCHANGED <<margs, ep, out, lossArgs, paramVer, gradState, sched, modelMode,
                   fs, saves, data, merr, pvars, fvars>>

\* line 419
EvalForward ==
    /\ mpc = "eval_forward"
    /\ IF IsErr(ReshapeOut(batch.n, margs.batch_size))
         THEN mpc' = "error" /\ merr' = "eval_reshape" /\ UNCHANGED <<out, batchOps>>
         ELSE /\ out' = [n |-> margs.batch_size, unit |-> "encoded"]
              /\ batchOps' = Append(batchOps, "forward")
              /\ mpc' = "eval_decode"
              /\ merr' = merr
    /\ UNCHANGED <<margs, ep, remaining, batch, lossArgs, paramVer, gradState, counts,
                   sched, modelMode, fs, saves, data, pvars, fvars>>

\* line 420
EvalDecode ==
    /\ mpc = "eval_decode"
    /\ out' = [out EXCEPT !.unit = Decode(@)]
    /\ batchOps' = Append(batchOps, "decode")
    /\ mpc' = "eval_loss"
    /\ UNCHANGED <<margs, ep, remaining, batch, lossArgs, paramVer, gradState, counts,
                   sched, modelMode, fs, saves, data, merr, pvars, fvars>>

\* an eval loop body that trains: loss.backward() and optimizer.step()
EvalLossWithUpdate ==
    /\ mpc = "eval_loss"
    /\ lossArgs' = [phase |-> "eval", pred |-> out.unit, ref |-> batch.yUnit]
    /\ batchOps' = Append(batchOps, "loss")
    /\ gradState' = "fresh"
    /\ paramVer' = paramVer + 1
    /\ counts' = [counts EXCEPT !.backward = @ + 1, !.totalSteps = @ + 1]
    /\ mpc' = "eval_fetch"
    /\ UNCHANGED <<margs, ep, remaining, batch, out, sched, modelMode, fs, saves,
                   data, merr, pvars, fvars>>

\* line 422
EvalLoss ==
    /\ mpc = "eval_loss"
    /\ lossArgs' = [phase |-> "eval", pred |-> out.unit, ref |-> batch.yUnit]
    /\ batchOps' = Append(batchOps, "loss")
    /\ mpc' = "eval_fetch"
    /\ UNCHANGED <<margs, ep, remaining, batch, out, paramVer, gradState, counts,
                   sched, modelMode, fs, saves, data, merr, pvars, fvars>>

\* lines 424-429: the averages, the console line, the test of the cadence
EpochEnd ==
    /\ mpc = "epoch_end"
    /\ IF SaveDue(ep, margs.step_size)
         THEN mpc' = "makedirs" /\ ep' = ep
         ELSE mpc' = "epoch" /\ ep' = ep + 1
    /\ UNCHANGED <<margs, remaining, batch, out, batchOps, lossArgs, paramVer,
                   gradState, counts, sched, modelMode, fs, saves, data, merr,
                   pvars, fvars>>

\* lines 430-431
MakeDirs ==
    /\ mpc = "makedirs"
    /\ fs' = IF fs.dir THEN fs ELSE [fs EXCEPT !.dir = TRUE, !.created = TRUE]
    /\ mpc' = "save"
    /\ UNCHANGED <<margs, ep, remaining, batch, out, batchOps, lossArgs, paramVer,
                   gradState, counts, sched, modelMode, saves, data, merr, pvars, fvars>>

\* lines 432-433: torch.save opens the file for writing, which raises when the
\* directory is missing; then the loop goes to its next epoch
Save ==
    /\ mpc = "save"
    /\ IF fs.dir
         THEN /\ fs' = [fs EXCEPT !.files = @ \cup {CheckpointPath}]
              /\ saves' = Append(saves, [ep |-> ep, path |-> CheckpointPath,
                                         ver |-> paramVer, dir |-> fs.dir])
              /\ ep' = ep + 1
              /\ mpc' = "epoch"
              /\ merr' = merr
         ELSE /\ mpc' = "error"
              /\ merr' = "save"
              /\ UNCHANGED <<fs, saves, ep>>
    /\ UNCHANGED <<margs, remaining, batch, out, batchOps, lossArgs, paramVer,
                   gradState, counts, sched, modelMode, data, pvars, fvars>>

MainNext ==
    \/ Setup
    \/ EpochBegin
    \/ TrainFetch
    \/ ZeroGrad
    \/ TrainForward
    \/ TrainDecode
    \/ TrainLoss
    \/ Backward
    \/ OptimizerStep
    \/ Accumulate
    \/ SchedulerStep
    \/ EvalBegin
    \/ EvalFetch
    \/ EvalForward
    \/ EvalDecode
    \/ EvalLoss
    \/ EpochEnd
    \/ MakeDirs
    \/ Save

SpecMain == MainInit /\ [][MainNext]_vars

\* ------------------------------------------------------------------------
\* Claims about main
\* ------------------------------------------------------------------------
InMain == mpc \notin {"idle", "start"}

TrainBatchOrder == <<"zero_grad", "forward", "decode", "loss", "backward", "step">>

\* C2: when batch_size divides ntrain, the train phase of an epoch raises
\* nothing and ends after exactly ntrain / batch_size optimizer steps, one per
\* mini-batch, each after that batch's zero_grad, forward, decode, loss and
\* backward; one epoch over 4 samples with batch size 2 makes 2 steps.
C2_StepsPerEpoch ==
    InMain =>
        /\ mpc = "accum" => batchOps = TrainBatchOrder
        /\ mpc = "train_fetch" => counts.steps = counts.batches
        /\ margs.ntrain % margs.batch_size = 0 =>
              /\ merr /= "train_reshape"
              /\ mpc = "sched" => counts.steps = margs.ntrain \div margs.batch_size
        /\ (mpc = "finished" /\ margs.epochs = 1 /\ margs.ntrain = 4
                /\ margs.batch_size = 2) => counts.totalSteps = 2

\* the run of scenario 4 at its end
C2_Witness ==
    /\ mpc = "finished"
    /\ margs.epochs = 1
    /\ margs.ntrain = 4
    /\ margs.batch_size = 2
    /\ counts.totalSteps = 2
    /\ paramVer = 2

\* C3: from model.eval() to the end of the epoch (eval batches, averages,
\* console line, checkpoint) the parameters do not change and neither a
\* backward pass nor an optimizer step happens; the parameters change only in
\* the optimizer step of the train phase.
C3_EvalReadOnly ==
    [][ /\ modelMode = "eval" =>
              /\ paramVer' = paramVer
              /\ gradState' = gradState
              /\ counts'.backward = counts.backward
              /\ counts'.totalSteps = counts.totalSteps
        /\ paramVer' /= paramVer => (mpc = "step" /\ modelMode = "train")
      ]_vars

\* an epoch whose eval phase ran a batch and whose checkpoint holds the
\* parameters as the train phase left them
C3_Witness ==
    /\ mpc = "epoch"
    /\ modelMode = "eval"
    /\ lossArgs /= <<>>
    /\ lossArgs.phase = "eval"
    /\ Len(saves) > 0
    /\ paramVer = counts.totalSteps
    /\ saves[Len(saves)].ver = paramVer
    /\ paramVer > 0

SavedEpochs == { saves[i].ep : i \in 1..Len(saves) }

\* C5: a checkpoint is written at the end of epoch e exactly when e is a
\* multiple of step_size, always to save_path/save_name (one file, replaced
\* each time), and the directory exists at every write.
C5_CheckpointCadence ==
    InMain =>
        /\ \A i \in 1..Len(saves) :
              /\ saves[i].ep % margs.step_size = 0
              /\ saves[i].path = CheckpointPath
              /\ saves[i].dir
        /\ \A i, j \in 1..Len(saves) : i < j => saves[i].ep < saves[j].ep
        /\ mpc \in {"epoch", "finished"} =>
              SavedEpochs = { e \in 0..(ep - 1) : e % margs.step_size = 0 }
        /\ merr /= "save"
        /\ fs.files \subseteq {CheckpointPath}
        /\ Len(saves) > 0 => (fs.dir /\ fs.files = {CheckpointPath})

\* three epochs with step_size 2 and no directory at the start: epochs 0 and
\* 2 were saved, epoch 1 was not, the directory was created
C5_Witness ==
    /\ mpc = "finished"
    /\ margs.step_size = 2
    /\ margs.epochs = 3
    /\ fs.created
    /\ SavedEpochs = {0, 2}

HoldsBatch ==
    mpc \in {"zero_grad", "forward", "decode", "loss", "backward", "step", "accum",
             "eval_forward", "eval_decode", "eval_loss"}

\* C9 (as claimed): the loader discards the incomplete trailing batch, so
\* every mini-batch in hand holds exactly batch_size samples and no epoch
\* ends in a shape error of the reshape.
C9_FullBatchesOnly ==
    InMain =>
        /\ HoldsBatch => batch.n = margs.batch_size
        /\ merr \notin {"train_reshape", "eval_reshape"}

\* C10 (as claimed): in the train phase and in the eval phase the prediction
\* handed to the loss is decoded to physical units and the reference it is
\* compared with is in physical units too.
C10_LossUnitsAgree ==
    (InMain /\ lossArgs /= <<>>) =>
        /\ lossArgs.pred = "physical"
        /\ lossArgs.ref = "physical"

====
